---- MODULE Spec2Model ----
(***************************************************************************)
(* Model of the two batch engines of moos3/bell:                           *)
(*   czds  - zone ingestion   (src/czds/czds_to_db.go)                     *)
(*   query - active resolution (src/unnamed/part_000, package query)       *)
(* One behaviour is the life of one of the two binaries (prog), run        *)
(* against the shared store of src/schema.sql.                             *)
(*                                                                         *)
(* Strings are sequences of tokens: a DNS name is its labels with the      *)
(* "." separators kept as tokens, so "foo.example." is                     *)
(* <<"foo", ".", "example", ".">>, and a file name ends in the token       *)
(* ".txt.gz".  TrimSuffix / HasSuffix work on the last token.              *)
(***************************************************************************)
EXTENDS Bags, FiniteSets, Integers, Sequences, TLC

VARIABLES
    prog,            \* which binary runs: "czds" | "query" | "parse"
    force,           \* czds: the -force flag of this run
    maxConcurrent,   \* config: zones.max_concurrent / dns_query.max_concurrent
    batchSize,       \* config: zones.batch_size / dns_query.batch_size
    reprocessThreshold, \* config: zones.reprocess_threshold_hours
    zone,            \* czds: entry index -> the RR stream of that file
    now,             \* wall clock, in hours
    run,             \* number of the process run
    faults,          \* environment faults injected so far
    domains,         \* table domains: <<domain_name, tld>> -> row
    nextId,          \* sequence behind domains.id
    dns_records,     \* table dns_records: a bag of rows
    processed_tlds,  \* table processed_tlds: tld -> last_processed
    query_progress,  \* table query_progress, row id = 1: last_domain_id
    dns,             \* query: what the DNS servers answer in this behaviour
    lastDomainIDPtr, \* query main: the in-memory cursor
    mpc,             \* main goroutine: where it is
    processedTLDs,   \* main: the map read by getProcessedTLDs
    sem,             \* number of tokens in the semaphore channel
    wg,              \* the WaitGroup counter
    task             \* entry index -> the goroutine started for it

(* configuration and environment, fixed during a behaviour *)
envVars == <<prog, maxConcurrent, batchSize, reprocessThreshold, zone, dns>>
(* state only the resolution engine writes *)
queryVars == <<query_progress, lastDomainIDPtr>>
(* state only the ingestion engine writes *)
czdsVars == <<force, run, nextId, processed_tlds, processedTLDs>>
vars == <<envVars, queryVars, czdsVars, now, faults, domains, dns_records, mpc,
          sem, wg, task>>

----------------------------------------------------------------------------
(* Bounds of the model *)
MaxRuns == 3         \* process runs in one behaviour
MaxFaults == 1       \* injected faults (storage errors, panics) per behaviour
MaxZoneLen == 3      \* longest RR stream drawn for the parser

----------------------------------------------------------------------------
(* The configurations explored (config.yaml) *)
ConcurrencyLimits == {0, 1, 2}     \* max_concurrent; 0 when left unset
BatchSizes == {1, 2}               \* zones.batch_size
PageSizes == {1, 2, 3}             \* dns_query.batch_size
ReprocessThresholds == {0, 24}     \* zones.reprocess_threshold_hours; 0 when unset

----------------------------------------------------------------------------
(* A nullable column or a Go pointer: NULL / nil, or Some(v). *)
NULL == <<>>
Some(v) == <<v>>

(* strings *)
EmptyMap == [x \in {} |-> x]

HasSuffix(s, suffix) == Len(s) > 0 /\ s[Len(s)] = suffix

TrimSuffix(s, suffix) ==
    IF HasSuffix(s, suffix) THEN SubSeq(s, 1, Len(s) - 1) ELSE s

----------------------------------------------------------------------------
(* The zone parser's output: resource records, or a malformed entry on      *)
(* which zp.Next() returns false and zp.Err() is set.                       *)
RR(owner, rtype, rdata) ==
    [bad |-> FALSE, owner |-> owner, rtype |-> rtype, ttl |-> 3600, rdata |-> rdata]

Malformed == [bad |-> TRUE, owner |-> <<>>, rtype |-> "", ttl |-> 0, rdata |-> <<>>]

Root == <<".">>
Apex == <<"example", ".">>
Foo == <<"foo", ".", "example", ".">>
Bar == <<"bar", ".", "org", ".">>
Ns1 == <<"ns1", ".", "example", ".">>
Ns2 == <<"ns2", ".", "example", ".">>
Addr == <<"93.184.216.34">>

FooNS1 == RR(Foo, "NS", Ns1)
FooNS2 == RR(Foo, "NS", Ns2)
FooNSRoot == RR(Foo, "NS", Root)
FooA == RR(Foo, "A", Addr)
FooHINFO == RR(Foo, "HINFO", <<"cpu">>)
ApexNS == RR(Apex, "NS", <<"a", ".", "nic", ".">>)
RootNS == RR(Root, "NS", <<"b", ".", "nic", ".">>)
BarNS == RR(Bar, "NS", Ns1)

ZoneAlphabet ==
    {FooNS1, FooNS2, FooNSRoot, FooA, FooHINFO, ApexNS, RootNS, Malformed}

RECURSIVE SeqsUpTo(_, _)
SeqsUpTo(S, n) ==
    IF n = 0 THEN {<<>>}
    ELSE LET shorter == SeqsUpTo(S, n - 1)
         IN shorter \cup {Append(s, x) : s \in shorter, x \in S}

validRecordTypes ==
    {"NS", "A", "AAAA", "MX", "TXT", "CNAME", "SOA", "PTR", "SRV", "CAA", "DNSKEY", "DS"}

(* One record of a batch (the map built at lines 63-70). *)
BatchRecord(rr, domain, tld) ==
    [domain_name |-> domain, record_type |-> rr.rtype,
     record_data |-> <<rr.owner, rr.ttl, rr.rtype, rr.rdata>>,
     ttl |-> rr.ttl, tld |-> tld, source |-> "CZDS"]

(* The target put in front of the list. *)
PrependNS(nameservers, domain, nsName) ==
    IF domain \in DOMAIN nameservers
    THEN [nameservers EXCEPT ![domain] = <<nsName>> \o @]
    ELSE (domain :> <<nsName>>) @@ nameservers

(* nameservers[domain] = append(nameservers[domain], nsName) *)
AppendNS(nameservers, domain, nsName) ==
    IF domain \in DOMAIN nameservers
    THEN [nameservers EXCEPT ![domain] = Append(@, nsName)]
    ELSE (domain :> <<nsName>>) @@ nameservers

(* The filters without the test of the record type. *)
FilteredByOwnerOnly(rr, tld) ==
    \/ rr.owner = tld \o <<".">>
    \/ TrimSuffix(rr.owner, ".") = <<>>

(* The filters at the head of the loop body: TRUE when the record is       *)
(* skipped by one of the three `continue`s of lines 43-62.                  *)
Filtered(rr, tld) ==
    \/ rr.owner = tld \o <<".">>
    \/ TrimSuffix(rr.owner, ".") = <<>>
    \/ rr.rtype \notin validRecordTypes

(* One iteration of the loop of parseZoneFile up to, and without, the      *)
(* "batch full" test of line 82.  full = FALSE when the iteration left by  *)
(* a `continue` and so never reached that test.                            *)
Iterate(records, nameservers, rr, tld) ==
    LET domain == TrimSuffix(rr.owner, ".")
        appended == Append(records, BatchRecord(rr, domain, tld))
        nsName == TrimSuffix(rr.rdata, ".")
    IN  IF Filtered(rr, tld)
        THEN [records |-> records, nameservers |-> nameservers, full |-> FALSE]
        ELSE IF rr.rtype = "NS"
        THEN IF nsName = <<>>
             THEN [records |-> appended, nameservers |-> nameservers, full |-> FALSE]
             ELSE [records |-> appended,
                   nameservers |-> AppendNS(nameservers, domain, nsName),
                   full |-> TRUE]
        ELSE [records |-> appended, nameservers |-> nameservers, full |-> TRUE]

----------------------------------------------------------------------------
(* Storage adapter of the ingestion engine: storeRecords, lines 103-169.    *)

(* ns := nameservers[domain]; a missing key yields the empty list. *)
NsOf(nameservers, domain) ==
    IF domain \in DOMAIN nameservers THEN nameservers[domain] ELSE <<>>

(* The first loop of storeRecords (lines 133-149): one upsert per distinct  *)
(* owner, in order of first appearance.  db = [domains, nextId, domainIDs]. *)
(* ON CONFLICT (domain_name, tld) DO UPDATE overwrites nameservers and      *)
(* last_updated and keeps the id; a new row draws its id from the sequence  *)
(* (the gaps a conflict or a rollback leaves in the sequence are not        *)
(* modelled: nothing reads them).                                           *)
RECURSIVE UpsertDomains(_, _, _, _, _)
UpsertDomains(records, nameservers, tld, t, db) ==
    IF records = <<>> THEN db
    ELSE LET domain == Head(records).domain_name
             key == <<domain, tld>>
             exists == key \in DOMAIN db.domains
             id == IF exists THEN db.domains[key].id ELSE db.nextId
             row == [id |-> id, nameservers |-> NsOf(nameservers, domain),
                     last_updated |-> Some(t)]
         IN  IF domain \in DOMAIN db.domainIDs
             THEN UpsertDomains(Tail(records), nameservers, tld, t, db)
             ELSE UpsertDomains(Tail(records), nameservers, tld, t,
                      [domains |-> (key :> row) @@ db.domains,
                       nextId |-> IF exists THEN db.nextId ELSE db.nextId + 1,
                       domainIDs |-> (domain :> id) @@ db.domainIDs])

(* The second loop (lines 151-166): INSERT ... ON CONFLICT DO NOTHING.  No  *)
(* unique constraint of schema.sql covers the inserted columns (the only    *)
(* key is the generated id), so no insert ever conflicts.                   *)
RECURSIVE InsertRecords(_, _, _, _)
InsertRecords(records, domainIDs, t, table) ==
    IF records = <<>> THEN table
    ELSE LET r == Head(records)
             row == [domain_id |-> domainIDs[r.domain_name],
                     record_type |-> r.record_type, record_data |-> r.record_data,
                     ttl |-> r.ttl, source |-> r.source, last_updated |-> Some(t)]
         IN  InsertRecords(Tail(records), domainIDs, t, table (+) SetToBag({row}))

(* tx.Commit() of storeRecords: both loops become visible together. *)
storeRecords(records, nameservers, tld) ==
    LET up == UpsertDomains(records, nameservers, tld, now,
                  [domains |-> domains, nextId |-> nextId, domainIDs |-> EmptyMap])
    IN  /\ domains' = up.domains
        /\ nextId' = up.nextId
        /\ dns_records' = InsertRecords(records, up.domainIDs, now, dns_records)

(* The domain upserts left in place although a later statement failed. *)
storeRecordsNoRollback(records, nameservers, tld) ==
    LET up == UpsertDomains(records, nameservers, tld, now,
                  [domains |-> domains, nextId |-> nextId, domainIDs |-> EmptyMap])
    IN  /\ domains' = up.domains
        /\ nextId' = up.nextId
        /\ UNCHANGED dns_records

(* A statement of storeRecords failed: every error path after db.Begin()    *)
(* calls tx.Rollback() (lines 117, 128, 144, 163) before it returns, and a  *)
(* failed Begin or Commit wrote nothing, so whatever the statements before  *)
(* the failing one did inside the transaction is discarded.                 *)
storeRecordsFailed(records, nameservers, tld) ==
    UNCHANGED <<domains, nextId, dns_records>>

(* Whether the environment may still fail a call. *)
CallResults == IF faults < MaxFaults THEN {TRUE, FALSE} ELSE {TRUE}

----------------------------------------------------------------------------
(* The zones directory read by os.ReadDir (line 279). *)
ZonesDirectory ==
    << [name |-> <<"example", ".txt.gz">>, isDir |-> FALSE],
       [name |-> <<"org", ".txt.gz">>, isDir |-> FALSE] >>

Entries == 1..Len(ZonesDirectory)

ZoneChoices ==
    { <<FooNS1, FooA>>, <<FooNS1, Malformed, FooA>>, <<FooNSRoot, FooA, FooNS2>> }

TldOf(f) == TrimSuffix(ZonesDirectory[f].name, ".txt.gz")

(* The goroutine of one directory entry before it is started; `prev` is   *)
(* what processZoneFile returned for the entry in the run before.           *)
IdleTask ==
    [pc |-> "idle", pos |-> 0, records |-> <<>>, nameservers |-> EmptyMap,
     ret |-> "none", delivered |-> <<>>, prev |-> "none"]

(* The states in which a goroutine holds a semaphore slot and runs the     *)
(* body of its task. *)
BodyPCs == {"check", "parse", "mark", "types", "progress", "ptr"}

(* The body returned `ret`: the deferred calls of lines 296 and 298 run,    *)
(* <-sem and then wg.Done(), and the goroutine ends.                        *)
Returned(t, ret) == [t EXCEPT !.pc = "done", !.ret = ret]

Deferred(f) ==
    /\ sem' = IF task'[f].pc = "done" THEN sem - 1 ELSE sem
    /\ wg' = IF task'[f].pc = "done" THEN wg - 1 ELSE wg

(* A send that never blocks. *)
SemAlwaysRoom == TRUE

(* sem <- struct{}{} on a channel of capacity max_concurrent: the send      *)
(* completes when the buffer has room (with capacity 0 only a receiver      *)
(* could take it, and the only receive is the sender's own deferred one).   *)
SemHasRoom == sem < maxConcurrent

(* A wait that returns at once. *)
WaitNoCheck == TRUE

(* wg.Wait() returns when the counter is zero. *)
WaitDone == wg = 0

(* The freshness test without the force flag. *)
SkipFileForced(tld) ==
    /\ tld \in DOMAIN processedTLDs
    /\ now - processedTLDs[tld] < reprocessThreshold

(* The freshness test of lines 209-214. *)
SkipFile(tld) ==
    /\ ~force
    /\ tld \in DOMAIN processedTLDs
    /\ now - processedTLDs[tld] < reprocessThreshold

Alive == mpc \notin {"crashed", "exit"}

(* The resolution engine's main, or processDomain on its own. *)
Resolving == prog \in {"query", "resolve"}

(* main, lines 248-291: read processed_tlds once, make the semaphore. *)
ZMain ==
    /\ prog \in {"czds", "parse"}
    /\ mpc = "start"
    /\ processedTLDs' = processed_tlds
    /\ mpc' = "dispatch"
    /\ sem' = 0
    /\ wg' = 0
    /\ UNCHANGED <<envVars, queryVars, force, now, run, faults, domains, nextId, dns_records, processed_tlds, task>>

(* main, lines 293-303: wg.Add(1) and `go` for every directory entry.  A   *)
(* goroutine the loop has not started yet differs from one that has not    *)
(* been scheduled yet only in the WaitGroup counter, which nothing reads   *)
(* before line 304, so the loop is one step.                                *)
ZDispatch ==
    /\ prog \in {"czds", "parse"}
    /\ mpc = "dispatch"
    /\ wg' = wg + Cardinality(DOMAIN task)
    /\ task' = [f \in DOMAIN task |-> [task[f] EXCEPT !.pc = "waiting"]]
    /\ mpc' = "wait"
    /\ UNCHANGED <<envVars, queryVars, force, now, run, faults, domains, nextId, dns_records, processed_tlds,
                   processedTLDs, sem>>

(* main, line 304: wg.Wait() returns and the process exits. *)
ZWait ==
    /\ prog \in {"czds", "parse"}
    /\ mpc = "wait"
    /\ WaitDone
    /\ mpc' = "exit"
    /\ UNCHANGED <<envVars, queryVars, force, now, run, faults, domains, nextId, dns_records, processed_tlds,
                   processedTLDs, sem, wg, task>>

(* goroutine, czds line 297 and query line 262: sem <- struct{}{} *)
Acquire(f) ==
    /\ Alive
    /\ task[f].pc = "waiting"
    /\ SemHasRoom
    /\ sem' = sem + 1
    /\ task' = [task EXCEPT ![f].pc = IF Resolving THEN "types" ELSE "check"]
    /\ UNCHANGED <<envVars, queryVars, force, now, run, faults, domains, nextId, dns_records, processed_tlds,
                   mpc, processedTLDs, wg>>

(* processZoneFile, lines 199-228: eligibility, freshness, open. *)
ZCheck(f) ==
    /\ prog \in {"czds", "parse"}
    /\ Alive
    /\ task[f].pc = "check"
    /\ \E opened \in CallResults :
         /\ task' = [task EXCEPT ![f] =
               IF ZonesDirectory[f].isDir \/ ~HasSuffix(ZonesDirectory[f].name, ".txt.gz")
               THEN Returned(@, "nil:ineligible")
               ELSE IF TldOf(f) = <<>> THEN Returned(@, "err:notld")
               ELSE IF SkipFile(TldOf(f)) THEN Returned(@, "nil:skipped")
               ELSE IF ~opened THEN Returned(@, "err:open")
               ELSE [@ EXCEPT !.pc = "parse"]]
         /\ faults' = IF task'[f].ret = "err:open" THEN faults + 1 ELSE faults
         /\ opened \/ task'[f].ret = "err:open"
    /\ Deferred(f)
    /\ UNCHANGED <<envVars, queryVars, force, now, run, domains, nextId, dns_records, processed_tlds,
                   mpc, processedTLDs>>

(* The error swallowed: the parser goes on with an empty batch. *)
StoreErrorIgnored(t) ==
    [t EXCEPT !.pos = @ + 1, !.records = <<>>, !.nameservers = EmptyMap]

(* A failed processBatch, lines 83-85 and 96-98 with 231-233 and 237-239:  *)
(* the error goes up through parseZoneFile and processZoneFile.             *)
StoreError(t) == Returned(t, "err:store")

(* The malformed entry passed over. *)
MalformedSkipped(t) == [t EXCEPT !.pos = @ + 1]

(* The parse error dropped: the file goes on to be marked. *)
MalformedMarks(t) == [t EXCEPT !.pc = "mark"]

(* zp.Next() met a malformed entry: the loop ends, line 91 finds zp.Err()  *)
(* set and returns; the pending batch is dropped with the call frame.       *)
ParseError(t) == Returned(t, "err:parse")

(* processBatch (lines 230-236) called with the pending batch by the task  *)
(* of entry f; `after` is the goroutine on success.                        *)
ProcessBatch(f, records, nameservers, after) ==
    \E ok \in CallResults :
       LET call == [records |-> records, nameservers |-> nameservers, ok |-> ok]
       IN  IF ok
           THEN /\ storeRecords(records, nameservers, TldOf(f))
                /\ task' = [task EXCEPT ![f] =
                       [after EXCEPT !.delivered = Append(@, call)]]
                /\ UNCHANGED faults
           ELSE /\ storeRecordsFailed(records, nameservers, TldOf(f))
                /\ task' = [task EXCEPT ![f] =
                       [StoreError(task[f]) EXCEPT
                           !.delivered = Append(@, call)]]
                /\ faults' = faults + 1

(* A batch that is kept after its delivery. *)
FlushedNotCleared(t) ==
    [t EXCEPT !.pos = t.pos + 1]

(* parseZoneFile, lines 86-88: after the delivery of a full batch the      *)
(* records and the nameserver map start empty again.                       *)
Flushed(t) ==
    [t EXCEPT !.pos = t.pos + 1, !.records = <<>>, !.nameservers = EmptyMap]

(* parseZoneFile, lines 42-90: one iteration of the loop.  A malformed      *)
(* entry ends the loop and line 91 returns the error.                       *)
ParseNext(f) ==
    /\ prog \in {"czds", "parse"}
    /\ Alive
    /\ task[f].pc = "parse"
    /\ task[f].pos < Len(zone[f])
    /\ LET t == task[f]
           rr == zone[f][t.pos + 1]
           it == Iterate(t.records, t.nameservers, rr, TldOf(f))
       IN  IF rr.bad
           THEN /\ task' = [task EXCEPT ![f] = ParseError(t)]
                /\ UNCHANGED <<faults, domains, nextId, dns_records>>
           ELSE IF it.full /\ Len(it.records) >= batchSize
           THEN ProcessBatch(f, it.records, it.nameservers, Flushed(t))
           ELSE /\ task' = [task EXCEPT ![f] =
                       [t EXCEPT !.pos = t.pos + 1, !.records = it.records,
                                 !.nameservers = it.nameservers]]
                /\ UNCHANGED <<faults, domains, nextId, dns_records>>
    /\ Deferred(f)
    /\ UNCHANGED <<envVars, queryVars, force, now, run, processed_tlds, mpc, processedTLDs>>

(* parseZoneFile, lines 91-100: the stream ended without error; the        *)
(* remainder, if any, is delivered.                                         *)
ParseEnd(f) ==
    /\ prog \in {"czds", "parse"}
    /\ Alive
    /\ task[f].pc = "parse"
    /\ task[f].pos = Len(zone[f])
    /\ LET t == task[f]
       IN  IF Len(t.records) > 0
           THEN ProcessBatch(f, t.records, t.nameservers, [t EXCEPT !.pc = "mark"])
           ELSE /\ task' = [task EXCEPT ![f].pc = "mark"]
                /\ UNCHANGED <<faults, domains, nextId, dns_records>>
    /\ Deferred(f)
    /\ UNCHANGED <<envVars, queryVars, force, now, run, processed_tlds, mpc, processedTLDs>>

(* processZoneFile, lines 241-245, with markTLDProcessed (lines 190-197). *)
markTLDProcessed(f) ==
    /\ prog \in {"czds", "parse"}
    /\ Alive
    /\ task[f].pc = "mark"
    /\ \E ok \in CallResults :
         IF ok
         THEN /\ processed_tlds' = (TldOf(f) :> now) @@ processed_tlds
              /\ task' = [task EXCEPT ![f] = Returned(@, "nil:completed")]
              /\ UNCHANGED faults
         ELSE /\ UNCHANGED processed_tlds
              /\ task' = [task EXCEPT ![f] = Returned(@, "err:mark")]
              /\ faults' = faults + 1
    /\ Deferred(f)
    /\ UNCHANGED <<envVars, queryVars, force, now, run, domains, nextId, dns_records, mpc, processedTLDs>>

(* A panic in the body of the goroutine of lines 295-302: the deferred     *)
(* calls run (<-sem, wg.Done()), nothing recovers, the runtime ends the    *)
(* process with every other goroutine where it stands.                      *)
ZPanic(f) ==
    /\ prog = "czds"
    /\ Alive
    /\ task[f].pc \in {"check", "parse", "mark"}
    /\ faults < MaxFaults
    /\ faults' = faults + 1
    /\ sem' = sem - 1
    /\ wg' = wg - 1
    /\ task' = [task EXCEPT ![f].pc = "panicked"]
    /\ mpc' = "crashed"
    /\ UNCHANGED <<envVars, queryVars, force, now, run, domains, nextId, dns_records, processed_tlds,
                   processedTLDs>>

(* The binary is started again after a run that exited, with or without    *)
(* -force, at once or when the freshness window has passed.                 *)
ZRestart ==
    /\ prog = "czds"
    /\ mpc = "exit"
    /\ run < MaxRuns
    /\ run' = run + 1
    /\ now' \in {now, now + reprocessThreshold}
    /\ force' \in BOOLEAN
    /\ mpc' = "start"
    /\ sem' = 0
    /\ wg' = 0
    /\ processedTLDs' = EmptyMap
    /\ task' = [f \in DOMAIN task |-> [IdleTask EXCEPT !.prev = task[f].ret]]
    /\ UNCHANGED <<envVars, queryVars,
                   faults, domains, nextId, dns_records, processed_tlds>>

----------------------------------------------------------------------------
(* The active resolution engine, src/unnamed/part_000 (package query).      *)

recordTypes == <<"A", "AAAA", "MX", "TXT", "CNAME">>

StalenessHours == 12

NsA == <<"ns1", ".", "example">>
NsB == <<"ns2", ".", "example">>
Tld == <<"example">>

(* The domains table the engine starts from: ids 1, 2 and 4 are due, 3 has  *)
(* no nameservers and 5 was updated within the staleness window.            *)
Backlog ==
    (<< <<"a", ".", "example">>, Tld >> :>
        [id |-> 1, nameservers |-> <<NsA>>, last_updated |-> Some(0)]) @@
    (<< <<"b", ".", "example">>, Tld >> :>
        [id |-> 2, nameservers |-> <<NsA, NsB>>, last_updated |-> NULL]) @@
    (<< <<"c", ".", "example">>, Tld >> :>
        [id |-> 3, nameservers |-> <<>>, last_updated |-> Some(0)]) @@
    (<< <<"d", ".", "example">>, Tld >> :>
        [id |-> 4, nameservers |-> <<NsB>>, last_updated |-> Some(0)]) @@
    (<< <<"e", ".", "example">>, Tld >> :>
        [id |-> 5, nameservers |-> <<NsA>>, last_updated |-> Some(24)])

(* What the servers do in one behaviour: the <<nameserver, type>> pairs     *)
(* that return an answer, the nameservers no attempt reaches, and the       *)
(* resolver pool's reply to an NS question (NULL when no attempt reaches    *)
(* it, else the NS targets).                                                *)
DnsWorlds ==
    { [answers |-> {<<NsA, "A">>, <<NsB, "A">>, <<NsB, "MX">>}, down |-> {},
       pool |-> Some(<<NsA \o <<".">>, Root>>)],
      [answers |-> {<<NsB, "A">>}, down |-> {NsA}, pool |-> NULL],
      [answers |-> {}, down |-> {}, pool |-> Some(<<>>)] }

(* getDomainsAndNameservers, lines 28-56: the WHERE clause. *)
Due(row, lastDomainID) ==
    /\ row.nameservers # <<>>
    /\ \/ row.last_updated = NULL
       \/ row.last_updated[1] < now - StalenessHours
    /\ \/ lastDomainID = NULL
       \/ row.id > lastDomainID[1]

DomainInfo(key) ==
    [ID |-> domains[key].id, Domain |-> key[1], TLD |-> key[2],
     Nameservers |-> domains[key].nameservers]

(* ORDER BY id *)
RECURSIVE OrderById(_)
OrderById(keys) ==
    IF keys = {} THEN <<>>
    ELSE LET first == CHOOSE k \in keys : \A o \in keys : domains[k].id <= domains[o].id
         IN  <<DomainInfo(first)>> \o OrderById(keys \ {first})

(* LIMIT batchSize *)
getDomainsAndNameservers(lastDomainID, limit) ==
    LET rows == OrderById({k \in DOMAIN domains : Due(domains[k], lastDomainID)})
    IN  SubSeq(rows, 1, IF limit < Len(rows) THEN limit ELSE Len(rows))

(* One answer turned into a record, lines 113-119. *)
QueryRecord(domain, domainID, rt, ns) ==
    [domain_id |-> domainID, record_type |-> rt,
     record_data |-> <<domain, rt, ns>>, ttl |-> 300, source |-> "QUERY"]

(* backoff.WithMaxRetries(backoff.NewExponentialBackOff(), 3), lines 83, 107 *)
MaxRetries == 3

(* backoff.Retry over a WithMaxRetries policy (backoff v4): the operation   *)
(* is called; when it fails NextBackOff is asked, which stops once it has   *)
(* been asked MaxRetries times, else the operation is called again.        *)
(* fails: the transport fails on every attempt; numTries: the times        *)
(* NextBackOff has let the operation be retried so far.                    *)
RECURSIVE Retry(_, _)
Retry(fails, numTries) ==
    IF ~fails THEN [err |-> FALSE, attempts |-> numTries + 1]
    ELSE IF numTries >= MaxRetries THEN [err |-> TRUE, attempts |-> numTries + 1]
    ELSE Retry(fails, numTries + 1)

(* One logical query (its retries included) as the task's log keeps it:    *)
(* the question type, the server asked, what came of it and the number of  *)
(* times it was sent.                                                       *)
Query(qtype, server, outcome, attempts) ==
    [qtype |-> qtype, server |-> server, outcome |-> outcome, attempts |-> attempts]

(* The r.Answer of one nameserver for one type, as records (lines 112-120). *)
Answers(domain, domainID, rt, ns) ==
    IF <<ns, rt>> \in dns.answers THEN <<QueryRecord(domain, domainID, rt, ns)>> ELSE <<>>

(* A loop that asks every nameserver. *)
NeverBreak(records) == FALSE

(* Lines 121-123: if len(records) > 0 { break } *)
BreakAtAnswer(records) == Len(records) > 0

(* The loop over the nameservers, lines 98-124: a nameserver whose retries  *)
(* are exhausted is passed over (line 110), and the loop ends at the first  *)
(* one that left a record.  res = [records, queried].                       *)
RECURSIVE TypedQueries(_, _, _, _, _)
TypedQueries(nameservers, domain, domainID, rt, res) ==
    IF nameservers = <<>> THEN res
    ELSE LET ns == Head(nameservers)
             got == Answers(domain, domainID, rt, ns)
             sent == Retry(ns \in dns.down, 0)
         IN  IF sent.err
             THEN TypedQueries(Tail(nameservers), domain, domainID, rt,
                      [res EXCEPT !.queried =
                          Append(@, Query(rt, ns, "exhausted", sent.attempts))])
             ELSE LET asked ==
                          [records |-> res.records \o got,
                           queried |-> Append(res.queried,
                               Query(rt, ns, IF got = <<>> THEN "empty" ELSE "answered",
                                     sent.attempts))]
                  IN  IF BreakAtAnswer(asked.records) THEN asked
                      ELSE TypedQueries(Tail(nameservers), domain, domainID, rt, asked)

(* The NS answers kept by lines 87-95. *)
RECURSIVE Discovered(_)
Discovered(targets) ==
    IF targets = <<>> THEN <<>>
    ELSE LET nsName == TrimSuffix(Head(targets), ".")
         IN  IF nsName = <<>> THEN Discovered(Tail(targets))
             ELSE <<nsName>> \o Discovered(Tail(targets))

(* The resolver of dns_servers that line 77 picks. *)
Pool == <<"pool">>

(* queryDNSRecords, lines 67-126.  [err, records, queried, discovery]:     *)
(* `queried` lists the logical queries in the order they were sent, the NS  *)
(* discovery of lines 74-96 first when the nameserver list is empty.        *)
queryDNSRecords(domain, domainID, nameservers, rt) ==
    LET name == TrimSuffix(domain, ".")
        sent == Retry(dns.pool = NULL, 0)
    IN  IF Len(nameservers) = 0
        THEN IF sent.err
             THEN [err |-> TRUE, discovery |-> TRUE, records |-> <<>>,
                   queried |-> <<Query("NS", Pool, "exhausted", sent.attempts)>>]
             ELSE LET asked == Query("NS", Pool,
                                   IF dns.pool[1] = <<>> THEN "empty" ELSE "answered",
                                   sent.attempts)
                      res == TypedQueries(Discovered(dns.pool[1]), name, domainID, rt,
                                 [records |-> <<>>, queried |-> <<asked>>])
                  IN  [err |-> FALSE, discovery |-> TRUE, records |-> res.records,
                       queried |-> res.queried]
        ELSE LET res == TypedQueries(nameservers, name, domainID, rt,
                            [records |-> <<>>, queried |-> <<>>])
             IN  [err |-> FALSE, discovery |-> FALSE, records |-> res.records,
                  queried |-> res.queried]

(* The inserts of the resolution engine's storeRecords, lines 170-183. *)
RECURSIVE InsertQueried(_, _, _)
InsertQueried(records, t, table) ==
    IF records = <<>> THEN table
    ELSE InsertQueried(Tail(records), t,
             table (+) SetToBag({[domain_id |-> Head(records).domain_id,
                                  record_type |-> Head(records).record_type,
                                  record_data |-> Head(records).record_data,
                                  ttl |-> Head(records).ttl,
                                  source |-> Head(records).source,
                                  last_updated |-> Some(t)]}))

(* An update that rewrites the row's nameservers as well. *)
TouchAndClearNameservers(table, id, t) ==
    [k \in DOMAIN table |->
        IF table[k].id = id
        THEN [table[k] EXCEPT !.last_updated = Some(t), !.nameservers = <<>>]
        ELSE table[k]]

(* UPDATE domains SET last_updated = $1 WHERE id = $2, lines 185-189. *)
TouchDomain(table, id, t) ==
    [k \in DOMAIN table |->
        IF table[k].id = id THEN [table[k] EXCEPT !.last_updated = Some(t)] ELSE table[k]]

(* The goroutine of lines 255-269 for one domain of the page: where it    *)
(* stands, the round of the loop over recordTypes, the sleeps taken, the   *)
(* queries sent so far, whether updateProgress was called (attempted) and  *)
(* whether its cursor update was written (updated).                         *)
QueryTask(pc, domainInfo) ==
    [pc |-> pc, domainInfo |-> domainInfo, i |-> 1, slept |-> 0, ret |-> "none",
     log |-> <<>>, attempted |-> FALSE, updated |-> FALSE]

(* main, lines 197-236: read the persisted cursor. *)
QMain ==
    /\ prog = "query"
    /\ mpc = "start"
    /\ lastDomainIDPtr' = query_progress
    /\ mpc' = "fetch"
    /\ UNCHANGED <<envVars, czdsVars, query_progress, now, faults, domains,
                   dns_records, sem, wg, task>>

(* main, lines 240-270: fetch a page; leave the loop when it is empty,     *)
(* else make the page's WaitGroup and semaphore and start one goroutine    *)
(* per domain.                                                              *)
QFetch ==
    /\ prog = "query"
    /\ mpc = "fetch"
    /\ LET page == getDomainsAndNameservers(lastDomainIDPtr, batchSize)
       IN  IF Len(page) = 0
           THEN /\ mpc' = "exit"
                /\ UNCHANGED <<sem, wg, task>>
           ELSE /\ mpc' = "wait"
                /\ sem' = 0
                /\ wg' = Len(page)
                /\ task' = [i \in 1..Len(page) |->
                              QueryTask("waiting", page[i])]
    /\ UNCHANGED <<envVars, czdsVars, queryVars, now, faults, domains, dns_records>>

(* main, line 271: wg.Wait() returns; back to the head of the loop. *)
QWait ==
    /\ prog = "query"
    /\ mpc = "wait"
    /\ WaitDone
    /\ mpc' = "fetch"
    /\ UNCHANGED <<envVars, czdsVars, queryVars, now, faults, domains, dns_records,
                   sem, wg, task>>

(* A loop over recordTypes that is left after its first round. *)
LoopLeftAfterFirstType(t, q) ==
    [t EXCEPT !.pc = "progress",
              !.log = @ \o q.queried]

(* A type without records ends the domain's processing. *)
EmptyTypeEndsDomain(t, q) ==
    IF q.err \/ Len(q.records) = 0
    THEN [t EXCEPT !.pc = "ptr", !.log = @ \o q.queried]
    ELSE [t EXCEPT !.pc = IF t.i = Len(recordTypes) THEN "progress" ELSE @,
                   !.i = IF t.i = Len(recordTypes) THEN @ ELSE @ + 1,
                   !.log = @ \o q.queried]

(* processDomain after the lookup of one type, lines 132-147: an error      *)
(* `continue`s (line 134, no sleep), otherwise the pacing sleep is taken    *)
(* except after the last type; after the last type the loop is left.        *)
AfterType(t, q) ==
    LET last == t.i = Len(recordTypes)
    IN  [t EXCEPT !.pc = IF last THEN "progress" ELSE @,
                  !.i = IF last THEN @ ELSE @ + 1,
                  !.slept = IF q.err \/ last THEN @ ELSE @ + 1,
                  !.log = @ \o q.queried]

(* processDomain, lines 130-147: one round of the loop over recordTypes:   *)
(* the lookup, the store of what it found, the pacing sleep.                *)
QueryType(f) ==
    /\ Resolving
    /\ Alive
    /\ task[f].pc = "types"
    /\ LET t == task[f]
           d == t.domainInfo
           q == queryDNSRecords(d.Domain, d.ID, d.Nameservers, recordTypes[t.i])
       IN  /\ task' = [task EXCEPT ![f] = AfterType(t, q)]
           /\ IF ~q.err /\ Len(q.records) > 0
              THEN \E ok \in CallResults :
                     IF ok
                     THEN /\ dns_records' = InsertQueried(q.records, now, dns_records)
                          /\ domains' = TouchDomain(domains, q.records[1].domain_id, now)
                          /\ UNCHANGED faults
                     ELSE /\ faults' = faults + 1
                          /\ UNCHANGED <<domains, dns_records>>
              ELSE UNCHANGED <<faults, domains, dns_records>>
    /\ UNCHANGED <<envVars, czdsVars, queryVars, now, mpc, sem, wg>>

(* The id before the domain's own. *)
ProgressBehind(t) == Some(t.domainInfo.ID - 1)

(* Line 149: updateProgress(db, domainInfo.ID) *)
ProgressValue(t) == Some(t.domainInfo.ID)

(* processDomain, lines 148-152, with updateProgress (lines 58-65). *)
updateProgress(f) ==
    /\ Resolving
    /\ Alive
    /\ task[f].pc = "progress"
    /\ \E ok \in CallResults :
          IF ok
          THEN /\ query_progress' = ProgressValue(task[f])
               /\ task' = [task EXCEPT ![f].pc = "ptr", ![f].attempted = TRUE,
                                        ![f].updated = TRUE]
               /\ UNCHANGED faults
          ELSE /\ faults' = faults + 1
               /\ task' = [task EXCEPT ![f].pc = "ptr", ![f].attempted = TRUE]
               /\ UNCHANGED query_progress
    /\ UNCHANGED <<envVars, czdsVars, lastDomainIDPtr, now, domains, dns_records,
                   mpc, sem, wg>>

(* goroutine, line 268, then the deferred calls: <-sem and wg.Done(). *)
QAdvance(f) ==
    /\ Resolving
    /\ Alive
    /\ task[f].pc = "ptr"
    /\ lastDomainIDPtr' = Some(task[f].domainInfo.ID)
    /\ task' = [task EXCEPT ![f] = Returned(@, "nil")]
    /\ Deferred(f)
    /\ UNCHANGED <<envVars, czdsVars, query_progress, now, faults, domains,
                   dns_records, mpc>>

(* A panic inside processDomain: the deferred calls run in reverse order,  *)
(* <-sem (line 263), recover() (lines 257-261), wg.Done() (line 256); the  *)
(* goroutine ends and the process goes on.                                  *)
QPanic(f) ==
    /\ Resolving
    /\ Alive
    /\ task[f].pc \in {"types", "progress"}
    /\ faults < MaxFaults
    /\ faults' = faults + 1
    /\ task' = [task EXCEPT ![f] = Returned(@, "recovered")]
    /\ Deferred(f)
    /\ UNCHANGED <<envVars, czdsVars, queryVars, now, domains, dns_records, mpc>>

(* A panic of processDomain that is no transient failure (it is not drawn  *)
(* from the budget of failing calls, so it can strike a domain every time  *)
(* the domain is processed), caught by the same recover() of lines 257-261.*)
QFault(f) ==
    /\ prog = "query"
    /\ Alive
    /\ task[f].pc = "types"
    /\ task[f].i = 1
    /\ task' = [task EXCEPT ![f] = Returned(@, "recovered")]
    /\ Deferred(f)
    /\ UNCHANGED <<envVars, czdsVars, queryVars, now, faults, domains, dns_records, mpc>>

----------------------------------------------------------------------------
InitStore ==
    /\ domains = EmptyMap
    /\ nextId = 1
    /\ dns_records = EmptyBag
    /\ processed_tlds = EmptyMap
    /\ query_progress = NULL

InitProcess ==
    /\ now = 0
    /\ run = 1
    /\ faults = 0
    /\ mpc = "start"
    /\ processedTLDs = EmptyMap
    /\ sem = 0
    /\ wg = 0

InitCzds ==
    /\ prog = "czds"
    /\ force = FALSE
    /\ maxConcurrent \in ConcurrencyLimits
    /\ batchSize \in BatchSizes
    /\ reprocessThreshold \in ReprocessThresholds
    /\ zone \in {<<z, <<BarNS>> >> : z \in ZoneChoices}
    /\ task = [f \in Entries |-> IdleTask]
    /\ dns = NULL
    /\ lastDomainIDPtr = NULL
    /\ InitStore
    /\ InitProcess

(* parseZoneFile on its own: one file, every RR stream up to MaxZoneLen. *)
InitParse ==
    /\ prog = "parse"
    /\ force = FALSE
    /\ maxConcurrent = 1
    /\ batchSize \in BatchSizes
    /\ reprocessThreshold = 0
    /\ zone \in {<<z>> : z \in SeqsUpTo(ZoneAlphabet, MaxZoneLen)}
    /\ task = [f \in {1} |-> IdleTask]
    /\ dns = NULL
    /\ lastDomainIDPtr = NULL
    /\ InitStore
    /\ InitProcess

NextParse ==
    \/ ZMain
    \/ ZDispatch
    \/ ZWait
    \/ \E f \in DOMAIN task :
          \/ Acquire(f)
          \/ ZCheck(f)
          \/ ParseNext(f)
          \/ ParseEnd(f)
          \/ markTLDProcessed(f)

(* One run of the ingestion command. *)
NextCzds ==
    \/ NextParse
    \/ \E f \in DOMAIN task : ZPanic(f)

(* The ingestion command run again and again over a directory that holds   *)
(* one zone file.                                                           *)
InitRuns ==
    /\ prog = "czds"
    /\ force = FALSE
    /\ maxConcurrent = 1
    /\ batchSize \in BatchSizes
    /\ reprocessThreshold \in ReprocessThresholds
    /\ zone \in {<<z>> : z \in ZoneChoices}
    /\ task = [f \in {1} |-> IdleTask]
    /\ dns = NULL
    /\ lastDomainIDPtr = NULL
    /\ InitStore
    /\ InitProcess

NextRuns ==
    \/ NextCzds
    \/ ZRestart

InitQuery ==
    /\ prog = "query"
    /\ force = FALSE
    /\ maxConcurrent \in ConcurrencyLimits
    /\ batchSize \in PageSizes
    /\ reprocessThreshold = 0
    /\ zone = <<>>
    /\ dns \in DnsWorlds
    /\ lastDomainIDPtr = NULL
    /\ task = <<>>
    /\ domains = Backlog
    /\ nextId = 6
    /\ dns_records = EmptyBag
    /\ processed_tlds = EmptyMap
    /\ query_progress = NULL
    /\ now = 24
    /\ run = 1
    /\ faults = 0
    /\ mpc = "start"
    /\ processedTLDs = EmptyMap
    /\ sem = 0
    /\ wg = 0

NextQuery ==
    \/ QMain
    \/ QFetch
    \/ QWait
    \/ \E f \in DOMAIN task :
          \/ QueryType(f)
          \/ updateProgress(f)
          \/ QAdvance(f)
          \/ QPanic(f)

(* processDomain (lines 128-153) on its own: one goroutine that holds the  *)
(* slot, called with a row of the domains table, whatever its nameserver   *)
(* list.                                                                    *)
ResolveInputs ==
    {[ID |-> Backlog[k].id, Domain |-> k[1], TLD |-> k[2],
      Nameservers |-> Backlog[k].nameservers] : k \in DOMAIN Backlog}

InitResolve ==
    /\ prog = "resolve"
    /\ force = FALSE
    /\ maxConcurrent = 1
    /\ batchSize = 1
    /\ reprocessThreshold = 0
    /\ zone = <<>>
    /\ dns \in DnsWorlds
    /\ lastDomainIDPtr = NULL
    /\ task \in {<<QueryTask("types", d)>> : d \in ResolveInputs}
    /\ domains = Backlog
    /\ nextId = 6
    /\ dns_records = EmptyBag
    /\ processed_tlds = EmptyMap
    /\ query_progress = NULL
    /\ now = 24
    /\ run = 1
    /\ faults = 0
    /\ mpc = "wait"
    /\ processedTLDs = EmptyMap
    /\ sem = 1
    /\ wg = 1

NextResolve ==
    \E f \in DOMAIN task :
        \/ QueryType(f)
        \/ updateProgress(f)
        \/ QAdvance(f)
        \/ QPanic(f)

(* The resolution command with its goroutines scheduled fairly: a step    *)
(* that can be taken is taken (main is never starved, every started        *)
(* goroutine runs, every call returns).                                     *)
NextEngine ==
    \/ NextQuery
    \/ \E f \in DOMAIN task :
          \/ Acquire(f)
          \/ QFault(f)

Init == InitCzds \/ InitQuery

Next == NextCzds \/ NextQuery

Spec == Init /\ [][Next]_vars

SpecParse == InitParse /\ [][NextParse]_vars

SpecRuns == InitRuns /\ [][NextRuns]_vars

SpecResolve == InitResolve /\ [][NextResolve]_vars

SpecEngine == InitQuery /\ [][NextEngine]_vars /\ WF_vars(NextEngine)

----------------------------------------------------------------------------
(* Properties *)

Tasks == DOMAIN task

(* The goroutines that hold a semaphore slot and run their body. *)
Running == {f \in Tasks : task[f].pc \in BodyPCs}

(* The goroutines whose body panicked. *)
Faulted == {f \in Tasks : task[f].pc = "panicked" \/ task[f].ret = "recovered"}

(* C1: in both pipelines, at every moment at most max_concurrent (>= 1)    *)
(* tasks hold a semaphore slot and execute their body.                      *)
C1_AtMostNRunning ==
    maxConcurrent >= 1 => Cardinality(Running) <= maxConcurrent

(* Every slot is taken and a dispatched task is kept waiting. *)
C1_AllSlotsTaken ==
    /\ maxConcurrent >= 1
    /\ Cardinality(Running) = maxConcurrent
    /\ \E f \in Tasks : task[f].pc = "waiting"

(* C2: in both pipelines a task's panic is caught at the task boundary:    *)
(* its slot is released, the siblings run on and the process is not        *)
(* terminated.                                                              *)
C2_PanicCaughtAtTaskBoundary ==
    Faulted # {} => /\ mpc # "crashed"
                    /\ sem = Cardinality(Running)

(* C3: the pool's wait returns only after every dispatched task, failed    *)
(* and faulted ones included, has finished: when main is past wg.Wait()    *)
(* no task is executing or waiting for a slot.                              *)
C3_WaitReturnsAfterAllTasks ==
    mpc \in {"exit", "fetch"} => \A f \in Tasks : task[f].pc = "done"

(* main is past the wait of a pool one of whose tasks failed or faulted. *)
C3_WaitReturnedAfterFailure ==
    /\ mpc \in {"exit", "fetch"}
    /\ \E f \in Tasks : task[f].ret \in {"recovered", "err:store", "err:parse"}
    /\ \E f \in Tasks : task[f].ret \in {"nil", "nil:completed"}

----------------------------------------------------------------------------
(* Zone ingestion: what the parser delivered and what the store holds.      *)

Range(seq) == {seq[i] : i \in DOMAIN seq}

SupportedTypes ==
    {"NS", "A", "AAAA", "MX", "TXT", "CNAME", "SOA", "PTR", "SRV", "CAA", "DNSKEY", "DS"}

(* A well-formed entry the specification keeps: supported type, owner      *)
(* neither the apex of the TLD nor empty once its trailing dot is gone.     *)
Survives(rr, tld) ==
    /\ ~rr.bad
    /\ rr.rtype \in SupportedTypes
    /\ rr.owner # tld \o <<".">>
    /\ TrimSuffix(rr.owner, ".") # <<>>

(* The NS targets of `owner` among batch records, in order, trailing dot   *)
(* stripped, empty ones left out.                                           *)
RECURSIVE NSTargets(_, _)
NSTargets(records, owner) ==
    IF records = <<>> THEN <<>>
    ELSE LET r == Head(records)
             target == TrimSuffix(r.record_data[4], ".")
         IN  IF r.record_type = "NS" /\ r.domain_name = owner /\ target # <<>>
             THEN <<target>> \o NSTargets(Tail(records), owner)
             ELSE NSTargets(Tail(records), owner)

(* The same over the entries of a zone file. *)
RECURSIVE FileNSTargets(_, _, _)
FileNSTargets(entries, tld, owner) ==
    IF entries = <<>> THEN <<>>
    ELSE LET rr == Head(entries)
             target == TrimSuffix(rr.rdata, ".")
         IN  IF /\ Survives(rr, tld)
                /\ rr.rtype = "NS"
                /\ TrimSuffix(rr.owner, ".") = owner
                /\ target # <<>>
             THEN <<target>> \o FileNSTargets(Tail(entries), tld, owner)
             ELSE FileNSTargets(Tail(entries), tld, owner)

(* The entries among the first n of a file that survive, as <<owner, ttl,  *)
(* type, rdata>>.                                                           *)
RECURSIVE SurvivingData(_, _, _)
SurvivingData(entries, tld, n) ==
    IF n = 0 THEN <<>>
    ELSE LET rr == entries[n]
         IN  IF Survives(rr, tld)
             THEN Append(SurvivingData(entries, tld, n - 1),
                         <<rr.owner, rr.ttl, rr.rtype, rr.rdata>>)
             ELSE SurvivingData(entries, tld, n - 1)

DataOf(records) == [i \in DOMAIN records |-> records[i].record_data]

(* The records of the batches the consumer was called with, in order. *)
RECURSIVE DeliveredData(_)
DeliveredData(calls) ==
    IF calls = <<>> THEN <<>>
    ELSE DataOf(Head(calls).records) \o DeliveredData(Tail(calls))

HasMalformed(entries) == \E i \in DOMAIN entries : entries[i].bad

FirstMalformed(entries) ==
    CHOOSE i \in DOMAIN entries :
        entries[i].bad /\ \A j \in 1..(i - 1) : ~entries[j].bad

(* Every record of the batch is a row of dns_records. *)
Committed(call) ==
    \A i \in DOMAIN call.records :
        \E row \in BagToSet(dns_records) :
            /\ row.record_data = call.records[i].record_data
            /\ row.source = "CZDS"

(* C4: after a file was ingested successfully, every owner's stored        *)
(* nameserver list is the ordered list of all NS targets of that owner in  *)
(* the file, for every batch size >= 1.                                     *)
C4_StoredNameserversAreTheFilesNS ==
    \A f \in Tasks :
        (prog = "czds" /\ task[f].ret = "nil:completed") =>
            \A key \in DOMAIN domains :
                key[2] = TldOf(f) =>
                    domains[key].nameservers = FileNSTargets(zone[f], TldOf(f), key[1])

(* C5: every delivered record has a supported type and an owner that is    *)
(* neither empty nor the TLD apex, and every key and value of a delivered  *)
(* nameserver map comes from a surviving NS record of the file.             *)
C5_DeliveredRecordsAreFiltered ==
    \A f \in Tasks : \A b \in Range(task[f].delivered) :
        /\ \A i \in DOMAIN b.records :
              /\ b.records[i].record_type \in SupportedTypes
              /\ b.records[i].domain_name # <<>>
              /\ b.records[i].domain_name # TldOf(f)
        /\ \A k \in DOMAIN b.nameservers :
              /\ b.nameservers[k] # <<>>
              /\ \A j \in DOMAIN b.nameservers[k] :
                    \E i \in DOMAIN zone[f] :
                        /\ Survives(zone[f][i], TldOf(f))
                        /\ zone[f][i].rtype = "NS"
                        /\ TrimSuffix(zone[f][i].owner, ".") = k
                        /\ TrimSuffix(zone[f][i].rdata, ".") = b.nameservers[k][j]

(* A batch was delivered from a file that holds a record of an unsupported *)
(* type and an NS record of the apex.                                       *)
C5_DeliveredFromFilteredFile ==
    \E f \in Tasks :
        /\ task[f].delivered # <<>>
        /\ {FooHINFO, ApexNS} \subseteq Range(zone[f])

(* C6 as stated: the owner of every delivered NS record is a key of the    *)
(* batch's nameserver map, whose value is the owner's NS targets in the    *)
(* batch, in order, stripped, empty targets omitted.                        *)
C6_EveryNSOwnerIsAKey ==
    \A f \in Tasks : \A b \in Range(task[f].delivered) :
        \A i \in DOMAIN b.records :
            b.records[i].record_type = "NS" =>
                /\ b.records[i].domain_name \in DOMAIN b.nameservers
                /\ b.nameservers[b.records[i].domain_name] =
                       NSTargets(b.records, b.records[i].domain_name)

(* C6 amended: the same for the NS records whose target is not empty once  *)
(* stripped; an owner all of whose NS targets in the batch are empty is    *)
(* not a key.                                                               *)
C6_NSMapMatchesBatch ==
    \A f \in Tasks : \A b \in Range(task[f].delivered) :
        \A i \in DOMAIN b.records :
            LET owner == b.records[i].domain_name
            IN  b.records[i].record_type = "NS" =>
                  /\ TrimSuffix(b.records[i].record_data[4], ".") # <<>> =>
                        /\ owner \in DOMAIN b.nameservers
                        /\ b.nameservers[owner] = NSTargets(b.records, owner)
                  /\ NSTargets(b.records, owner) = <<>> =>
                        owner \notin DOMAIN b.nameservers

(* A delivered batch with two NS targets of one owner around an NS record  *)
(* whose target is the root.                                                *)
C6_BatchWithRootTarget ==
    \E f \in Tasks : \E b \in Range(task[f].delivered) :
        /\ \E i \in DOMAIN b.records :
              /\ b.records[i].record_type = "NS"
              /\ b.records[i].record_data[4] = Root
        /\ \E k \in DOMAIN b.nameservers : Len(b.nameservers[k]) = 2

(* C7: for batchSize >= 1 no delivered batch is empty or larger than       *)
(* batchSize, and every batch but the last holds exactly batchSize         *)
(* records.                                                                 *)
C7_BatchSizesRespected ==
    \A f \in Tasks :
        LET d == task[f].delivered
        IN  \A k \in DOMAIN d :
              /\ Len(d[k].records) >= 1
              /\ Len(d[k].records) <= batchSize
              /\ k < Len(d) => Len(d[k].records) = batchSize

(* The ProcessedTLD row of the file's TLD is younger than the window. *)
FreshInStore(f) ==
    /\ TldOf(f) \in DOMAIN processed_tlds
    /\ now - processed_tlds[TldOf(f)] < reprocessThreshold

(* C8: without the force flag a file whose ProcessedTLD timestamp is       *)
(* younger than the freshness window is skipped with no storage write;     *)
(* with the force flag no file is skipped.                                  *)
C8_FreshFilesSkippedUnlessForced ==
    [][prog = "czds" =>
        \A f \in Tasks :
            (task[f].pc = "check" /\ task'[f].pc \in {"parse", "done"}) =>
                /\ (~force /\ FreshInStore(f)) =>
                      /\ task'[f].ret = "nil:skipped"
                      /\ task'[f].delivered = <<>>
                      /\ UNCHANGED <<domains, dns_records, processed_tlds>>
                /\ task'[f].ret = "nil:skipped" => (~force /\ FreshInStore(f))
                /\ force => task'[f].ret # "nil:skipped"]_vars

(* A run without the force flag, started right after the file was          *)
(* ingested, has skipped it.                                                *)
C8_SkippedRightAfterIngestion ==
    /\ prog = "czds"
    /\ run = 2
    /\ ~force
    /\ \E f \in Tasks :
          /\ task[f].ret = "nil:skipped"
          /\ processed_tlds[TldOf(f)] = now
          /\ \E key \in DOMAIN domains : key[2] = TldOf(f)

(* C9: at a malformed entry parseZoneFile stops with an error: nothing     *)
(* behind the entry is read, the pending batch is not delivered, and the   *)
(* batches committed before it stay committed.                              *)
C9_StoppedAtMalformed ==
    \A f \in Tasks :
        /\ task[f].ret = "err:parse" =>
              /\ HasMalformed(zone[f])
              /\ task[f].pos = FirstMalformed(zone[f]) - 1
              /\ DeliveredData(task[f].delivered) \o DataOf(task[f].records)
                    = SurvivingData(zone[f], TldOf(f), task[f].pos)
              /\ \A k \in DOMAIN task[f].delivered :
                    task[f].delivered[k].ok /\ Committed(task[f].delivered[k])
        /\ HasMalformed(zone[f]) =>
              /\ task[f].pos < FirstMalformed(zone[f])
              /\ task[f].pc # "mark"
              /\ task[f].ret \in {"none", "err:open", "err:store", "err:parse"}

C9_MalformedIsFatal ==
    /\ []C9_StoppedAtMalformed
    /\ [][\A f \in Tasks :
            task[f].ret = "err:parse" =>
                /\ task'[f] = task[f]
                /\ UNCHANGED <<domains, dns_records>>]_vars

(* The parser failed with a batch committed and a partial batch pending. *)
C9_FailedWithPendingBatch ==
    \E f \in Tasks :
        /\ task[f].ret = "err:parse"
        /\ task[f].delivered # <<>>
        /\ task[f].records # <<>>

(* The ids of the domains of the file's TLD. *)
IdsOf(f) == {domains[key].id : key \in {k \in DOMAIN domains : k[2] = TldOf(f)}}

(* C10: a failed store of a batch ends the processing of its file in this  *)
(* run with an error: the batches committed earlier remain, no later batch *)
(* is parsed or stored, and the tasks of the other files are unaffected.   *)
C10_FailedStoreIsLast ==
    \A f \in Tasks :
        LET d == task[f].delivered
        IN  \A k \in DOMAIN d :
              IF d[k].ok
              THEN task[f].ret = "err:store" => Committed(d[k])
              ELSE /\ k = Len(d)
                   /\ task[f].pc = "done"
                   /\ task[f].ret = "err:store"

C10_StoreFailureAbortsFile ==
    /\ [](prog = "czds" => C10_FailedStoreIsLast)
    /\ [][(prog = "czds" /\ run' = run) =>
            \A f \in Tasks :
                /\ task[f].ret = "err:store" =>
                      /\ task'[f] = task[f]
                      /\ \A key \in DOMAIN domains :
                            key[2] = TldOf(f) =>
                                /\ key \in DOMAIN domains'
                                /\ domains'[key] = domains[key]
                      /\ \A row \in BagToSet(dns_records) \cup BagToSet(dns_records') :
                            row.domain_id \in IdsOf(f) =>
                                CopiesIn(row, dns_records') = CopiesIn(row, dns_records)
                /\ (task[f].ret # "err:store" /\ task'[f].ret = "err:store") =>
                      /\ \A g \in Tasks \ {f} : task'[g] = task[g]
                      /\ mpc' = mpc
                      /\ sem' = sem - 1]_vars

(* A file failed on its second batch and the other file was completed. *)
C10_FailedOnSecondBatch ==
    /\ prog = "czds"
    /\ \E f \in Tasks :
          /\ task[f].ret = "err:store"
          /\ Len(task[f].delivered) >= 2
          /\ \E g \in Tasks \ {f} : task[g].ret = "nil:completed"

(* The ProcessedTLD row of a TLD in a table: NULL when absent. *)
RowOf(table, tld) == IF tld \in DOMAIN table THEN Some(table[tld]) ELSE NULL

(* C11: the ProcessedTLD row of a TLD is written in a run only after the   *)
(* whole file was parsed without error and every batch committed; a file   *)
(* that hit a parse or storage error leaves the row as it was when the run *)
(* started.                                                                 *)
C11_FailedFileKeepsRow ==
    \A f \in Tasks :
        task[f].ret \in {"err:parse", "err:store"} =>
            RowOf(processed_tlds, TldOf(f)) = RowOf(processedTLDs, TldOf(f))

C11_MarkedOnlyAfterCleanIngestion ==
    /\ [](prog = "czds" => C11_FailedFileKeepsRow)
    /\ [][prog = "czds" =>
            \A f \in Tasks :
                RowOf(processed_tlds', TldOf(f)) # RowOf(processed_tlds, TldOf(f)) =>
                    /\ task[f].pc = "mark"
                    /\ task'[f].ret = "nil:completed"
                    /\ ~HasMalformed(zone[f])
                    /\ task[f].pos = Len(zone[f])
                    /\ DeliveredData(task[f].delivered)
                          = SurvivingData(zone[f], TldOf(f), Len(zone[f]))
                    /\ \A k \in DOMAIN task[f].delivered :
                          task[f].delivered[k].ok /\ Committed(task[f].delivered[k])]_vars

(* A file marked by an earlier run failed in this run after a committed    *)
(* batch, and its row still holds the earlier timestamp.                    *)
C11_FailedFileKeptOldRow ==
    /\ prog = "czds"
    /\ \E f \in Tasks :
          /\ task[f].ret = "err:store"
          /\ Len(task[f].delivered) >= 2
          /\ TldOf(f) \in DOMAIN processed_tlds
          /\ processed_tlds[TldOf(f)] < now

(* C12: a file whose ingestion a parse or storage error aborted in the run *)
(* before is not skipped by a run without the force flag, whatever its     *)
(* ProcessedTLD row.                                                        *)
C12_AbortedFileIsRetried ==
    [][prog = "czds" =>
        \A f \in Tasks :
            (/\ task[f].pc = "check"
             /\ task'[f].pc # "check"
             /\ task[f].prev \in {"err:parse", "err:store"}
             /\ ~force)
                => task'[f].ret # "nil:skipped"]_vars

(* The rows a committed batch adds to dns_records, the domain ids read from *)
(* `table`.                                                                 *)
RECURSIVE BatchRows(_, _, _, _)
BatchRows(records, tld, table, t) ==
    IF records = <<>> THEN EmptyBag
    ELSE LET r == Head(records)
         IN  SetToBag({[domain_id |-> table[<<r.domain_name, tld>>].id,
                        record_type |-> r.record_type,
                        record_data |-> r.record_data,
                        ttl |-> r.ttl, source |-> r.source,
                        last_updated |-> Some(t)]})
             (+) BatchRows(Tail(records), tld, table, t)

BatchOwners(call, tld) ==
    {<<call.records[i].domain_name, tld>> : i \in DOMAIN call.records}

(* C13: storing an ingestion batch is atomic: when the store fails none of *)
(* the batch's domain inserts, nameserver or timestamp updates or record   *)
(* rows is visible afterwards; when it commits all of them are.             *)
C13_BatchIsAtomic ==
    [][prog = "czds" =>
        \A f \in Tasks :
            Len(task'[f].delivered) = Len(task[f].delivered) + 1 =>
                LET call == task'[f].delivered[Len(task'[f].delivered)]
                    owners == BatchOwners(call, TldOf(f))
                IN  IF call.ok
                    THEN /\ \A key \in owners :
                               /\ key \in DOMAIN domains'
                               /\ domains'[key].nameservers =
                                     (IF key[1] \in DOMAIN call.nameservers
                                      THEN call.nameservers[key[1]] ELSE <<>>)
                               /\ domains'[key].last_updated = Some(now)
                               /\ key \in DOMAIN domains =>
                                     domains'[key].id = domains[key].id
                         /\ \A key \in DOMAIN domains' \ owners :
                               key \in DOMAIN domains /\ domains'[key] = domains[key]
                         /\ dns_records' =
                               dns_records (+) BatchRows(call.records, TldOf(f), domains', now)
                    ELSE UNCHANGED <<domains, dns_records>>]_vars

(* A batch failed and its owner has no domain row, while a batch of the    *)
(* other file is committed.                                                 *)
C13_RolledBackAndCommitted ==
    /\ prog = "czds"
    /\ \E f \in Tasks : \E k \in DOMAIN task[f].delivered :
          /\ ~task[f].delivered[k].ok
          /\ Len(task[f].delivered[k].records) = 2
          /\ \E key \in BatchOwners(task[f].delivered[k], TldOf(f)) :
                key \notin DOMAIN domains
          /\ \E g \in Tasks \ {f} : \E j \in DOMAIN task[g].delivered :
                task[g].delivered[j].ok /\ Committed(task[g].delivered[j])

(* C14: record insertion ignores rows that already exist: dns_records      *)
(* never holds two rows with the same domain id, record type and payload.  *)
C14_NoDuplicateRecordRows ==
    \A r \in BagToSet(dns_records) :
        /\ CopiesIn(r, dns_records) = 1
        /\ \A o \in BagToSet(dns_records) :
              (/\ o.domain_id = r.domain_id
               /\ o.record_type = r.record_type
               /\ o.record_data = r.record_data) => o = r

----------------------------------------------------------------------------
(* Resolution: the queries a domain's task sent and the cursor.             *)

(* The queries the task of f sent on this step. *)
NewQueries(f) ==
    SubSeq(task'[f].log, Len(task[f].log) + 1, Len(task'[f].log))

(* The task of f took a step of processDomain's loop over recordTypes. *)
TypeRound(f) ==
    /\ task[f].pc = "types"
    /\ task'[f] # task[f]
    /\ task'[f].ret # "recovered"

IsPrefix(a, b) ==
    /\ Len(a) <= Len(b)
    /\ \A i \in DOMAIN a : a[i] = b[i]

Discoveries(log) == {k \in DOMAIN log : log[k].qtype = "NS"}

C16_FirstAnswerEndsTheRound ==
    [][prog = "query" =>
        \A f \in Tasks :
            TypeRound(f) =>
                LET d == task[f].domainInfo
                    rt == recordTypes[task[f].i]
                    new == NewQueries(f)
                    added == dns_records' (-) dns_records
                IN  /\ Len(new) >= 1
                    /\ IsPrefix([k \in DOMAIN new |-> new[k].server], d.Nameservers)
                    /\ \A k \in DOMAIN new :
                          /\ new[k].qtype = rt
                          /\ new[k].outcome =
                                (IF new[k].server \in dns.down THEN "exhausted"
                                 ELSE IF <<new[k].server, rt>> \in dns.answers
                                 THEN "answered" ELSE "empty")
                          /\ k < Len(new) => new[k].outcome # "answered"
                    /\ Len(new) < Len(d.Nameservers) =>
                          new[Len(new)].outcome = "answered"
                    /\ \A row \in BagToSet(added) :
                          /\ new[Len(new)].outcome = "answered"
                          /\ CopiesIn(row, added) = 1
                          /\ row.domain_id = d.ID
                          /\ row.record_type = rt
                          /\ row.record_data =
                                <<TrimSuffix(d.Domain, "."), rt, new[Len(new)].server>>]_vars

(* A domain with two nameservers: for one type the first answered, for     *)
(* another the first answered nothing and the second answered, and the     *)
(* records of both types are stored.                                        *)
C16_SecondNameserverAnswered ==
    /\ prog = "query"
    /\ \E f \in Tasks :
          LET log == task[f].log
              ns == task[f].domainInfo.Nameservers
          IN  /\ Len(ns) = 2
              /\ task[f].pc = "done"
              /\ \E k \in DOMAIN log :
                    log[k].server = ns[1] /\ log[k].outcome = "answered"
              /\ \E k \in DOMAIN log :
                    /\ k < Len(log)
                    /\ log[k].server = ns[1] /\ log[k].outcome = "empty"
                    /\ log[k + 1].server = ns[2] /\ log[k + 1].outcome = "answered"
                    /\ log[k + 1].qtype = log[k].qtype
              /\ \E r \in BagToSet(dns_records) :
                    r.domain_id = task[f].domainInfo.ID /\ r.record_data[3] = ns[2]

(* C17: a type for which no nameserver answers yields no record and no     *)
(* error: nothing is stored, the next type is queried, the cursor update   *)
(* takes place and the other domains of the page are unaffected.           *)
C17_AllTypesThenCursor ==
    \A f \in Tasks :
        /\ task[f].pc \in {"progress", "ptr"} \/ task[f].ret = "nil" =>
              {task[f].log[k].qtype : k \in DOMAIN task[f].log} = Range(recordTypes)
        /\ (task[f].pc = "ptr" /\ faults = 0) => task[f].updated

C17_EmptyTypeIsNoError ==
    /\ [](prog = "query" => C17_AllTypesThenCursor)
    /\ [][prog = "query" =>
            \A f \in Tasks :
                (TypeRound(f) /\ \A k \in DOMAIN NewQueries(f) :
                                    NewQueries(f)[k].outcome # "answered") =>
                    /\ UNCHANGED <<domains, dns_records, query_progress>>
                    /\ task'[f].ret = "none"
                    /\ IF task[f].i < Len(recordTypes)
                       THEN task'[f].pc = "types" /\ task'[f].i = task[f].i + 1
                       ELSE task'[f].pc = "progress"
                    /\ \A g \in Tasks \ {f} : task'[g] = task[g]
                    /\ UNCHANGED <<mpc, sem, wg>>]_vars

(* A domain none of whose types was answered was processed to the end and  *)
(* wrote the cursor, and another domain of its page was processed too.     *)
C17_UnansweredDomainCompleted ==
    /\ prog = "query"
    /\ \E f \in Tasks :
          /\ task[f].ret = "nil"
          /\ task[f].updated
          /\ \A k \in DOMAIN task[f].log : task[f].log[k].outcome # "answered"
          /\ \E k \in DOMAIN task[f].log : task[f].log[k].qtype = "MX"
          /\ \E g \in Tasks \ {f} : task[g].ret = "nil"

PageIds == {task[f].domainInfo.ID : f \in Tasks}

(* The page's wg.Wait() has returned. *)
PageCompleted == prog = "query" /\ mpc = "fetch" /\ task # <<>>

(* C19: with max_concurrent = 1, after a page has completed the persisted  *)
(* cursor is the highest domain id of the page, in whatever order the      *)
(* tasks took the slot (here: even when no call failed).                   *)
C19_CursorIsHighestOfPage ==
    (PageCompleted /\ maxConcurrent = 1 /\ faults = 0) =>
        /\ query_progress # NULL
        /\ \A id \in PageIds : id <= query_progress[1]

(* C20 as stated: with max_concurrent > 1, after a non-empty page has      *)
(* completed the persisted cursor is the id of a domain of the page.       *)
C20_CursorIsOfPage ==
    (PageCompleted /\ maxConcurrent > 1) =>
        /\ query_progress # NULL
        /\ query_progress[1] \in PageIds

(* C20 amended: the cursor is written only by updateProgress with the id   *)
(* of its own domain; after a completed page it is the id of a domain of   *)
(* the page whose cursor update succeeded, when there is one.              *)
C20_CursorIsOfUpdatedTask ==
    (PageCompleted /\ maxConcurrent > 1 /\ \E f \in Tasks : task[f].updated) =>
        /\ query_progress # NULL
        /\ \E f \in Tasks : task[f].updated /\ query_progress[1] = task[f].domainInfo.ID

C20_CursorWrittenByPageTasks ==
    /\ [](C20_CursorIsOfUpdatedTask)
    /\ [][(prog = "query" /\ maxConcurrent > 1 /\ query_progress' # query_progress) =>
            \E f \in Tasks :
                /\ task[f].pc = "progress"
                /\ task'[f].updated
                /\ query_progress' = Some(task[f].domainInfo.ID)]_vars

(* A page of two domains completed under two workers, the cursor written   *)
(* last by the task of the lower id.                                       *)
C20_RacedPageCompleted ==
    /\ PageCompleted
    /\ maxConcurrent = 2
    /\ Cardinality(PageIds) >= 2
    /\ \A f \in Tasks : task[f].updated
    /\ \E id \in PageIds : id > query_progress[1]

----------------------------------------------------------------------------
(* Resolution: the cursor over the pages.                                   *)

(* C21: with max_concurrent = 1 the persisted cursor is monotonic: every   *)
(* write of query_progress.last_domain_id stores a value at least as large *)
(* as the value stored before, within a page and across pages.             *)
C21_CursorNeverDecreases ==
    [][(prog = "query" /\ maxConcurrent = 1 /\ query_progress # NULL
            /\ query_progress' # query_progress) =>
          query_progress'[1] >= query_progress[1]]_vars

(* The row of the domains table with this id. *)
RowOfId(id) == domains[CHOOSE k \in DOMAIN domains : domains[k].id = id]

(* C22: every page fetched holds only domains whose id is strictly greater *)
(* than the persisted cursor at the time of the fetch, in ascending order  *)
(* of id, at most batch-size many, each with a non-empty nameserver list   *)
(* and a freshness timestamp that is absent or older than 12 hours.        *)
C22_PageIsBeyondPersistedCursor ==
    [][(prog = "query" /\ mpc = "fetch" /\ mpc' = "wait") =>
          /\ Len(task') <= batchSize
          /\ \A i \in DOMAIN task' :
                LET d == task'[i].domainInfo
                IN  /\ query_progress # NULL => d.ID > query_progress[1]
                    /\ \A j \in DOMAIN task' : i < j => d.ID < task'[j].domainInfo.ID
                    /\ d.Nameservers # <<>>
                    /\ \/ RowOfId(d.ID).last_updated = NULL
                       \/ RowOfId(d.ID).last_updated[1] < now - StalenessHours]_vars

(* Every task of the completed page panicked and was recovered. *)
PageFaulted ==
    /\ PageCompleted
    /\ \A f \in Tasks : task[f].ret = "recovered"

(* C23: on a finite backlog, with max_concurrent >= 1 and every DNS and    *)
(* storage call returning, the engine eventually fetches an empty page and *)
(* terminates, for every interleaving and also when tasks fault and are    *)
(* recovered; after the empty page nothing more is dispatched.             *)
C23_EngineTerminates ==
    /\ maxConcurrent >= 1 => <>(mpc = "exit")
    /\ [][mpc = "exit" => UNCHANGED <<mpc, task, sem, wg>>]_vars

(* What holds instead: the engine terminates unless, again and again, a    *)
(* page completes with every one of its tasks recovered from a panic.      *)
C23_TerminatesUnlessPagesFault ==
    maxConcurrent >= 1 => (<>(mpc = "exit") \/ []<>PageFaulted)

----------------------------------------------------------------------------
(* Resolution: what the engine writes.                                      *)

(* C24 as stated: the resolution engine never writes to a Domain row       *)
(* (name, tld, nameservers and freshness timestamp are left unchanged by   *)
(* processDomain and its storeRecords).                                     *)
C24_DomainsReadOnly ==
    [][prog = "query" => domains' = domains]_vars

(* C24 amended: the resolution engine creates and deletes no Domain row    *)
(* and leaves id, name, tld and nameservers of every row unchanged; the    *)
(* only write is storeRecords setting last_updated of the domain whose     *)
(* records it has just inserted to the time of the store.                  *)
C24_OnlyFreshnessIsWritten ==
    [][prog = "query" =>
          /\ DOMAIN domains' = DOMAIN domains
          /\ \A k \in DOMAIN domains :
                /\ domains'[k] = [domains[k] EXCEPT !.last_updated = domains'[k].last_updated]
                /\ domains'[k] # domains[k] =>
                      /\ domains'[k].last_updated = Some(now)
                      /\ \E f \in Tasks :
                            /\ TypeRound(f)
                            /\ task[f].domainInfo.ID = domains[k].id
                            /\ \E r \in BagToSet(dns_records' (-) dns_records) :
                                  r.domain_id = domains[k].id]_vars

(* A task stored records and the freshness timestamp of its domain is the  *)
(* time of the store, the rest of the row as in the backlog.               *)
C24_DomainTouched ==
    /\ prog = "query"
    /\ \E k \in DOMAIN domains :
          /\ Backlog[k].last_updated # Some(now)
          /\ domains[k] = [Backlog[k] EXCEPT !.last_updated = Some(now)]
          /\ \E r \in BagToSet(dns_records) : r.domain_id = domains[k].id

(* The record types of which the store holds a record of this domain. *)
StoredTypes(id) ==
    {r.record_type : r \in {x \in BagToSet(dns_records) : x.domain_id = id}}

(* The record types for which a nameserver answered the task's query. *)
AnsweredTypes(log) ==
    {log[k].qtype : k \in {j \in DOMAIN log : log[j].outcome = "answered"}}

(* C25: resolution writes are atomic per domain: once the loop over the    *)
(* five types has ended, the records found for the domain are all          *)
(* persisted or none is; a storage failure for any type leaves no record   *)
(* of the domain from this cycle.                                           *)
C25_DomainIsAtomic ==
    prog = "query" =>
        \A f \in Tasks :
            (task[f].pc \in {"progress", "ptr"} \/ task[f].ret = "nil") =>
                \/ StoredTypes(task[f].domainInfo.ID) = {}
                \/ StoredTypes(task[f].domainInfo.ID) = AnsweredTypes(task[f].log)

(* C26: each logical DNS query (NS discovery, or one typed query to one    *)
(* nameserver) is attempted at most 3 times in total: after the third      *)
(* consecutive transport failure it is never sent a fourth time.           *)
C26_AtMostThreeAttempts ==
    Resolving =>
        \A f \in Tasks :
            \A k \in DOMAIN task[f].log : task[f].log[k].attempts <= 3

(* The place of a record type in recordTypes. *)
TypeIndex(rt) == CHOOSE i \in DOMAIN recordTypes : recordTypes[i] = rt

AllTypesQueried(t) ==
    {t.log[k].qtype : k \in DOMAIN t.log} = Range(recordTypes)

(* The task of f called updateProgress on this step. *)
ProgressCall(f) ==
    /\ ~task[f].attempted
    /\ f \in DOMAIN task'
    /\ task'[f].attempted

(* C28: the cursor write for a domain happens only after all five types    *)
(* have been queried and their store attempts have finished, and it        *)
(* happens exactly once per domain whose processing ran to the end, also   *)
(* when queries or stores of the domain failed: updateProgress is called   *)
(* once, after the loop, with the domain's own id.                          *)
C28_OneCallAfterTheLoop ==
    \A f \in Tasks :
        /\ task[f].updated => task[f].attempted
        /\ task[f].attempted => AllTypesQueried(task[f])
        /\ task[f].pc \in {"waiting", "types", "progress"} => ~task[f].attempted
        /\ (task[f].pc = "ptr" \/ task[f].ret = "nil") => task[f].attempted

C28_CursorWrittenOnceAfterAllTypes ==
    /\ [](prog = "query" => C28_OneCallAfterTheLoop)
    /\ [][prog = "query" =>
            /\ \A f \in Tasks :
                  ProgressCall(f) =>
                      /\ AllTypesQueried(task[f])
                      /\ task'[f].log = task[f].log
                      /\ UNCHANGED <<domains, dns_records>>
                      /\ IF task'[f].updated
                         THEN query_progress' = Some(task[f].domainInfo.ID)
                         ELSE query_progress' = query_progress /\ faults' = faults + 1
            /\ \A f \in Tasks :
                  (task[f].attempted /\ mpc' = mpc) =>
                      /\ task'[f].attempted
                      /\ task'[f].updated = task[f].updated
            /\ query_progress' # query_progress =>
                  Cardinality({f \in Tasks : ProgressCall(f)}) = 1]_vars

(* A domain one of whose nameservers exhausted its retries and whose store *)
(* failed was processed to the end and wrote the cursor.                   *)
C28_CursorWrittenAfterFailures ==
    /\ prog = "query"
    /\ \E f \in Tasks :
          /\ task[f].ret = "nil"
          /\ task[f].updated
          /\ query_progress = Some(task[f].domainInfo.ID)
          /\ \E k \in DOMAIN task[f].log : task[f].log[k].outcome = "exhausted"
          /\ AnsweredTypes(task[f].log) # {}
          /\ StoredTypes(task[f].domainInfo.ID) = {}

----------------------------------------------------------------------------
(* The parser's deliveries over a whole stream.                             *)

(* C29: on a stream without malformed entries and with a consumer that     *)
(* never fails, every record that survives filtering is delivered exactly  *)
(* once, and the concatenation of the delivered batches lists the          *)
(* surviving records in document order.                                    *)
C29_DeliveredIsSurvivingInOrder ==
    prog = "parse" =>
        \A f \in Tasks :
            (/\ ~HasMalformed(zone[f])
             /\ \A k \in DOMAIN task[f].delivered : task[f].delivered[k].ok) =>
                /\ task[f].pc = "parse" =>
                      DeliveredData(task[f].delivered) \o DataOf(task[f].records)
                          = SurvivingData(zone[f], TldOf(f), task[f].pos)
                /\ (task[f].pc = "mark" \/ task[f].ret \in {"nil:completed", "err:mark"}) =>
                      DeliveredData(task[f].delivered)
                          = SurvivingData(zone[f], TldOf(f), Len(zone[f]))

(* A stream of three entries, one of them filtered, parsed to its end and  *)
(* delivered in two batches.                                               *)
C29_WholeStreamDelivered ==
    /\ prog = "parse"
    /\ \E f \in Tasks :
          /\ task[f].pc = "mark"
          /\ ~HasMalformed(zone[f])
          /\ Len(zone[f]) = 3
          /\ Len(task[f].delivered) = 2
          /\ \A k \in DOMAIN task[f].delivered : task[f].delivered[k].ok
          /\ Len(DeliveredData(task[f].delivered)) = 2

----------------------------------------------------------------------------
(* The pool under every configured limit.                                   *)

(* Goroutines wait for a slot, none holds one and the channel has no room: *)
(* no receive will ever come, and wg.Wait() does not return.               *)
PoolStuck ==
    /\ Alive
    /\ mpc = "wait"
    /\ wg > 0
    /\ \E f \in Tasks : task[f].pc = "waiting"
    /\ Running = {}
    /\ ~SemHasRoom

(* C30: for every configured concurrency limit (0 included, which          *)
(* LoadConfig does not reject) and every finite set of terminating tasks,  *)
(* every task obtains a semaphore slot and the pool's wait returns: the    *)
(* pool never deadlocks.                                                    *)
C30_PoolNeverStuck == ~PoolStuck

----------------------------------------------------------------------------
(* Resolution: the two cursors and the pages of one run.                    *)

(* C31: at the end of every page the in-memory cursor that bounds the next *)
(* page fetch (lastDomainIDPtr) equals the persisted cursor                *)
(* query_progress.last_domain_id, for every interleaving of the page's     *)
(* workers (here: even when no call failed and no task panicked).          *)
C31_CursorsAgreeAfterPage ==
    (PageCompleted /\ faults = 0 /\ \A f \in Tasks : task[f].ret = "nil") =>
        lastDomainIDPtr = query_progress

(* C32: within one run each domain is dispatched at most once: a domain of *)
(* one page is not part of the page fetched next (here: even when no call  *)
(* failed and no task panicked).                                            *)
C32_NoDomainDispatchedTwice ==
    [][(prog = "query" /\ mpc = "fetch" /\ mpc' = "wait" /\ faults = 0
            /\ \A f \in Tasks : task[f].ret = "nil") =>
          {task'[f].domainInfo.ID : f \in DOMAIN task'} \cap PageIds = {}]_vars

(* C33: whenever the persisted cursor holds id c, every dispatched domain  *)
(* with id <= c has finished its processing (processDomain has returned),  *)
(* so that a restart, which resumes at ids greater than c, skips no domain *)
(* that was dispatched and not completed.                                   *)
C33_CursorCoversOnlyFinished ==
    (prog = "query" /\ query_progress # NULL) =>
        \A f \in Tasks :
            task[f].domainInfo.ID <= query_progress[1] =>
                task[f].pc \in {"ptr", "done"}

====
